---- MODULE Spec2Model ----
(***************************************************************************)
(* greenleeks: put a directory under version control if it is not yet.     *)
(* Model of src/greenleeks.go: Execute, run and the helpers run calls, over *)
(* a directory tree, a git repository and a git configuration file.        *)
(***************************************************************************)
EXTENDS Integers, Sequences, FiniteSets, TLC

(* ------------------------------ bounds --------------------------------- *)
\* entries below the root directory
MaxEntries == 3
\* largest --max-files value
MaxThreshold == 3
\* files the initializer puts into the control directory
MaxInitFiles == 2
\* processes started one after the other against the same directory
MaxRuns == 3

(* ------------------------- values of the model -------------------------- *)
\* what filepath.Walk meets: a regular file, a directory, an entry whose
\* lstat or readdir fails
EntryKinds == {"file", "dir", "err"}
\* the control directory and the files the initializer puts into it
GitKinds == {"gitdir", "gitfile"}
Trees == UNION {[1..n -> EntryKinds] : n \in 0..MaxEntries}
\* --max-files is an int: no validation, negative values are accepted
Thresholds == -1..MaxThreshold

NameVals == {"", "Alice"}
EmailVals == {"", "alice@example.com"}
\* an ini file that holds the keys name and email in one section
ConfigFiles == [section : {"user", "core"}, name : NameVals, email : EmailVals]

gitConfigUserSection == "user"
DefaultName == "Your Name"
DefaultEmail == "your.email@example.com"
CommitMessage == "Boilerplate"

ZeroAuthor == [Name |-> "", Email |-> ""]
\* a commit made by somebody else before the tool ever ran
OldCommit == [Name |-> "Someone", Email |-> "someone@example.com", Message |-> "earlier"]

VARIABLES opts, gitconfig, userTree, tree, repo, commits, staged,
          pc, authorInfo, steps, exitCode, logged, errMsg, fileCount,
          runs, atStart, orphaned

vars == <<opts, gitconfig, userTree, tree, repo, commits, staged,
          pc, authorInfo, steps, exitCode, logged, errMsg, fileCount,
          runs, atStart, orphaned>>

env == <<opts, gitconfig, userTree>>

(* ----------------------------- helpers --------------------------------- *)
\* os.FileInfo.IsDir of an entry
IsDir(e) == e \in {"dir", "gitdir"}
IsFile(e) == e \in {"file", "gitfile"}

\* non-directory entries of a tree: all of them, and those of one kind
RECURSIVE NumFiles(_)
NumFiles(s) ==
    IF s = <<>> THEN 0
    ELSE (IF IsFile(s[1]) THEN 1 ELSE 0) + NumFiles(Tail(s))

RECURSIVE NumKind(_, _)
NumKind(s, k) ==
    IF s = <<>> THEN 0
    ELSE (IF s[1] = k THEN 1 ELSE 0) + NumKind(Tail(s), k)

HasErr(s) == \E i \in 1..Len(s) : s[i] = "err"

Did(s, step) == \E i \in 1..Len(s) : s[i].step = step
DidOk(s, step) == \E i \in 1..Len(s) : s[i].step = step /\ s[i].result = "ok"

NoMsg == [kind |-> "none", count |-> 0, limit |-> 0]
NoCount == [count |-> 0, err |-> "none", visited |-> 0]

(* ------------------------- configureGitUserInfo ------------------------ *)
\* config.Section(s).Key(k).String(): "" when the section or key is absent
KeyString(cfg, section, key) ==
    IF cfg.section = section THEN cfg[key] ELSE ""

\* variant: the file's values are taken only when both are set
configureGitUserInfoBothOrNone(cfg) ==
    LET name == KeyString(cfg, gitConfigUserSection, "name")
        email == KeyString(cfg, gitConfigUserSection, "email")
        both == name # "" /\ email # ""
    IN [Name |-> IF both THEN name ELSE DefaultName,
        Email |-> IF both THEN email ELSE DefaultEmail]

configureGitUserInfo(cfg) ==
    LET name == KeyString(cfg, gitConfigUserSection, "name")
        email == KeyString(cfg, gitConfigUserSection, "email")
    IN [Name |-> IF name # "" THEN name ELSE DefaultName,
        Email |-> IF email # "" THEN email ELSE DefaultEmail]

(* ----------------------------- countFiles ------------------------------ *)
\* the callback of filepath.Walk applied to entries[i..]; visited is the
\* number of entries the callback was called for
\* variant: the IsDir test inverted, directories are counted
RECURSIVE walkDirs(_, _, _, _)
walkDirs(entries, i, n, max) ==
    IF i > Len(entries) THEN [count |-> n, err |-> "nil", visited |-> i - 1]
    ELSE IF entries[i] = "err" THEN [count |-> n, err |-> "io", visited |-> i]
    ELSE IF IsDir(entries[i])
         THEN IF n + 1 > max
              THEN [count |-> n + 1, err |-> "limit", visited |-> i]
              ELSE walkDirs(entries, i + 1, n + 1, max)
         ELSE walkDirs(entries, i + 1, n, max)

\* variant: the walk is never aborted by the limit, which is applied to the
\* total at the end
RECURSIVE walkWholeTree(_, _, _, _)
walkWholeTree(entries, i, n, max) ==
    IF i > Len(entries)
    THEN [count |-> n, err |-> IF n > max THEN "limit" ELSE "nil", visited |-> i - 1]
    ELSE IF entries[i] = "err" THEN [count |-> n, err |-> "io", visited |-> i]
    ELSE IF ~IsDir(entries[i])
         THEN walkWholeTree(entries, i + 1, n + 1, max)
         ELSE walkWholeTree(entries, i + 1, n, max)

\* variant: >= in place of >
RECURSIVE walkOffByOne(_, _, _, _)
walkOffByOne(entries, i, n, max) ==
    IF i > Len(entries) THEN [count |-> n, err |-> "nil", visited |-> i - 1]
    ELSE IF entries[i] = "err" THEN [count |-> n, err |-> "io", visited |-> i]
    ELSE IF ~IsDir(entries[i])
         THEN IF n + 1 >= max
              THEN [count |-> n + 1, err |-> "limit", visited |-> i]
              ELSE walkOffByOne(entries, i + 1, n + 1, max)
         ELSE walkOffByOne(entries, i + 1, n, max)

\* variant: the files of the control directory are passed over
RECURSIVE walkSkipGit(_, _, _, _)
walkSkipGit(entries, i, n, max) ==
    IF i > Len(entries) THEN [count |-> n, err |-> "nil", visited |-> i - 1]
    ELSE IF entries[i] = "err" THEN [count |-> n, err |-> "io", visited |-> i]
    ELSE IF ~IsDir(entries[i]) /\ entries[i] # "gitfile"
         THEN IF n + 1 > max
              THEN [count |-> n + 1, err |-> "limit", visited |-> i]
              ELSE walkSkipGit(entries, i + 1, n + 1, max)
         ELSE walkSkipGit(entries, i + 1, n, max)

RECURSIVE walk(_, _, _, _)
walk(entries, i, n, max) ==
    IF i > Len(entries) THEN [count |-> n, err |-> "nil", visited |-> i - 1]
    ELSE IF entries[i] = "err" THEN [count |-> n, err |-> "io", visited |-> i]
    ELSE IF ~IsDir(entries[i])
         THEN IF n + 1 > max
              THEN [count |-> n + 1, err |-> "limit", visited |-> i]
              ELSE walk(entries, i + 1, n + 1, max)
         ELSE walk(entries, i + 1, n, max)

\* the walk starts at the root directory itself
WalkSeq(t) == <<"dir">> \o t

countFiles(t, max) == walk(WalkSeq(t), 1, 0, max)

(* --------------------------- isUnderGitControl ------------------------- *)
\* what git.PlainOpenWithOptions can answer for the directory
OpenResults(r) ==
    IF r = "repo" THEN {"ok", "other"} ELSE {"notexists", "noworktree", "other"}

\* variant: a repository that opens is not reported
isUnderGitControlNeverUnder(open) ==
    IF open = "notexists" \/ open = "noworktree" \/ open = "ok"
    THEN [under |-> FALSE, err |-> FALSE]
    ELSE [under |-> FALSE, err |-> TRUE]

\* variant: every open failure is taken for "no repository"
isUnderGitControlSwallow(open) ==
    IF open = "ok" THEN [under |-> TRUE, err |-> FALSE]
    ELSE [under |-> FALSE, err |-> FALSE]

\* variant: the err == nil test inverted, an open that succeeds is an error
isUnderGitControlOkIsError(open) ==
    IF open = "notexists" \/ open = "noworktree"
    THEN [under |-> FALSE, err |-> FALSE]
    ELSE [under |-> FALSE, err |-> TRUE]

isUnderGitControl(open) ==
    IF open = "ok" THEN [under |-> TRUE, err |-> FALSE]
    ELSE IF open = "notexists" \/ open = "noworktree"
         THEN [under |-> FALSE, err |-> FALSE]
         ELSE [under |-> FALSE, err |-> TRUE]

(* ------------------------ initializeGitRepository ---------------------- *)
\* git.PlainInit refuses a directory that already holds a repository
InitResults(r) == IF r = "repo" THEN {"err"} ELSE {"ok", "err"}

\* the tree once the control directory and its k files exist; pos is where
\* the control directory sorts among the user's entries
AfterInit(t, pos, k) ==
    SubSeq(t, 1, pos) \o <<"gitdir">> \o [i \in 1..k |-> "gitfile"]
        \o SubSeq(t, pos + 1, Len(t))

(* ------------------------------ commit --------------------------------- *)
Signature(ai) == [Name |-> ai.Name, Email |-> ai.Email, Message |-> CommitMessage]

(* --------------------------- Execute and run --------------------------- *)
RunPcs == {"configure", "check", "init", "count", "add", "commit"}
LivePcs == {"parseFlags", "setLogLevel", "setupLogger"} \cup RunPcs
StoppedPcs == {"exited", "panicked", "killed"}

\* a run that stopped with the repository initialized and no commit made
LeftOrphan(s) == DidOk(s, "init") /\ ~DidOk(s, "commit")

Snapshot == [repo |-> repo, commits |-> commits, staged |-> staged,
             tree |-> tree, orphaned |-> orphaned]

Init ==
    /\ opts \in [MaxFiles : Thresholds]
    /\ gitconfig \in ConfigFiles
    /\ userTree \in Trees
    /\ tree = userTree
    /\ \/ repo = "none" /\ commits = <<>>
       \/ repo = "repo" /\ commits \in {<<>>, <<OldCommit>>}
    /\ staged = 0
    /\ pc = "parseFlags"
    /\ authorInfo = ZeroAuthor
    /\ steps = <<>>
    /\ exitCode = -1
    /\ logged = 0
    /\ errMsg = NoMsg
    /\ fileCount = NoCount
    /\ runs = 1
    /\ atStart = [repo |-> repo, commits |-> commits, staged |-> 0,
                  tree |-> tree, orphaned |-> FALSE]
    /\ orphaned = FALSE

\* Execute returns 1 without calling run
ExitEarly(step) ==
    /\ pc' = "exited"
    /\ exitCode' = 1
    /\ logged' = logged + 1
    /\ steps' = Append(steps, [step |-> step, result |-> "err"])
    /\ UNCHANGED <<env, tree, repo, commits, staged, authorInfo, errMsg,
                   fileCount, runs, atStart, orphaned>>

\* run returns a wrapped error; Execute logs it and returns 1
ReturnErr(step, result) ==
    /\ pc' = "exited"
    /\ exitCode' = 1
    /\ logged' = logged + 1
    /\ steps' = Append(steps, [step |-> step, result |-> result])
    /\ orphaned' = (orphaned \/ LeftOrphan(steps'))

\* the step succeeded and run goes on
Proceed(step, next) ==
    /\ pc' = next
    /\ steps' = Append(steps, [step |-> step, result |-> "ok"])
    /\ UNCHANGED <<exitCode, logged, orphaned>>

ParseFlags ==
    /\ pc = "parseFlags"
    /\ \E ok \in BOOLEAN :
        IF ok
        THEN /\ Proceed("parseFlags", "setLogLevel")
             /\ UNCHANGED <<env, tree, repo, commits, staged, authorInfo,
                            errMsg, fileCount, runs, atStart>>
        ELSE ExitEarly("parseFlags")

SetLogLevel ==
    /\ pc = "setLogLevel"
    /\ \E ok \in BOOLEAN :
        IF ok
        THEN /\ Proceed("setLogLevel", "setupLogger")
             /\ UNCHANGED <<env, tree, repo, commits, staged, authorInfo,
                            errMsg, fileCount, runs, atStart>>
        ELSE ExitEarly("setLogLevel")

SetupLogger ==
    /\ pc = "setupLogger"
    /\ \E ok \in BOOLEAN :
        IF ok
        THEN /\ Proceed("setupLogger", "configure")
             /\ UNCHANGED <<env, tree, repo, commits, staged, authorInfo,
                            errMsg, fileCount, runs, atStart>>
        ELSE ExitEarly("setupLogger")

\* run, lines 70-73, with configureGitUserInfo and readGitConfig
ConfigureGitUserInfo ==
    /\ pc = "configure"
    /\ \E r \in {"ok", "panic", "readErr"} :
        CASE r = "panic" ->
                \* mymazda.ExpandTilde failed: panic(err), the process dies
                \* with the runtime's status 2 and its message on stderr
                /\ pc' = "panicked"
                /\ exitCode' = 2
                /\ logged' = logged + 1
                /\ steps' = Append(steps, [step |-> "config", result |-> "panic"])
                /\ UNCHANGED <<authorInfo, orphaned>>
          [] r = "readErr" ->
                /\ authorInfo' = ZeroAuthor
                /\ ReturnErr("config", "readErr")
          [] r = "ok" ->
                /\ authorInfo' = configureGitUserInfo(gitconfig)
                /\ Proceed("config", "check")
    /\ UNCHANGED <<env, tree, repo, commits, staged, errMsg, fileCount,
                   runs, atStart>>

\* run, lines 75-83, with isUnderGitControl
IsUnderGitControl ==
    /\ pc = "check"
    /\ \E open \in OpenResults(repo) :
        LET r == isUnderGitControl(open) IN
        IF r.err THEN ReturnErr("check", open)
        ELSE IF r.under
             THEN /\ pc' = "exited"
                  /\ exitCode' = 0
                  /\ steps' = Append(steps, [step |-> "check", result |-> open])
                  /\ UNCHANGED <<logged, orphaned>>
             ELSE /\ pc' = "init"
                  /\ steps' = Append(steps, [step |-> "check", result |-> open])
                  /\ UNCHANGED <<exitCode, logged, orphaned>>
    /\ UNCHANGED <<env, tree, repo, commits, staged, authorInfo, errMsg,
                   fileCount, runs, atStart>>

\* run, lines 85-90, with initializeGitRepository
InitializeGitRepository ==
    /\ pc = "init"
    /\ \E r \in InitResults(repo) :
        IF r = "ok"
        THEN /\ \E pos \in 0..Len(userTree), k \in 1..MaxInitFiles :
                    tree' = AfterInit(userTree, pos, k)
             /\ repo' = "repo"
             /\ commits' = <<>>
             /\ staged' = 0
             /\ Proceed("init", "count")
        ELSE /\ ReturnErr("init", "err")
             /\ UNCHANGED <<tree, repo, commits, staged>>
    /\ UNCHANGED <<env, authorInfo, errMsg, fileCount, runs, atStart>>

\* run, lines 92-99, with countFiles
CountFiles ==
    /\ pc = "count"
    /\ LET r == countFiles(tree, opts.MaxFiles) IN
        /\ fileCount' = r
        /\ IF r.err # "nil"
           THEN /\ ReturnErr("count", r.err)
                /\ errMsg' = IF r.err = "limit"
                             THEN [kind |-> "limit", count |-> r.count,
                                   limit |-> opts.MaxFiles]
                             ELSE [kind |-> "io", count |-> 0, limit |-> 0]
           ELSE IF r.count > opts.MaxFiles
                THEN /\ ReturnErr("count", "limit")
                     /\ errMsg' = [kind |-> "limit", count |-> r.count,
                                   limit |-> opts.MaxFiles]
                ELSE /\ Proceed("count", "add")
                     /\ UNCHANGED errMsg
    /\ UNCHANGED <<env, tree, repo, commits, staged, authorInfo, runs, atStart>>

\* run, lines 101-104, with addAllFiles
AddAllFiles ==
    /\ pc = "add"
    /\ \E r \in {"ok", "openErr", "worktreeErr", "addErr"} :
        IF r = "ok"
        THEN /\ staged' = NumFiles(userTree)
             /\ Proceed("add", "commit")
        ELSE /\ ReturnErr("add", r)
             /\ UNCHANGED staged
    /\ UNCHANGED <<env, tree, repo, commits, authorInfo, errMsg, fileCount,
                   runs, atStart>>

\* run, lines 106-113, with commit
Commit ==
    /\ pc = "commit"
    /\ \E r \in {"ok", "openErr", "worktreeErr", "commitErr"} :
        IF r = "ok"
        THEN /\ commits' = Append(commits, Signature(authorInfo))
             /\ staged' = 0
             /\ pc' = "exited"
             /\ exitCode' = 0
             /\ steps' = Append(steps, [step |-> "commit", result |-> "ok"])
             /\ UNCHANGED <<logged, orphaned>>
        ELSE /\ ReturnErr("commit", r)
             /\ UNCHANGED <<commits, staged>>
    /\ UNCHANGED <<env, tree, repo, authorInfo, errMsg, fileCount, runs, atStart>>

\* the process is killed between two steps of run
Interrupt ==
    /\ pc \in RunPcs
    /\ pc' = "killed"
    /\ orphaned' = (orphaned \/ LeftOrphan(steps))
    /\ UNCHANGED <<env, tree, repo, commits, staged, authorInfo, steps,
                   exitCode, logged, errMsg, fileCount, runs, atStart>>

\* the tool is started again against the same directory
StartRun ==
    /\ pc \in StoppedPcs
    /\ runs < MaxRuns
    /\ runs' = runs + 1
    /\ pc' = "parseFlags"
    /\ authorInfo' = ZeroAuthor
    /\ steps' = <<>>
    /\ exitCode' = -1
    /\ logged' = 0
    /\ errMsg' = NoMsg
    /\ fileCount' = NoCount
    /\ atStart' = Snapshot
    /\ UNCHANGED <<env, tree, repo, commits, staged, orphaned>>

Next ==
    \/ ParseFlags
    \/ SetLogLevel
    \/ SetupLogger
    \/ ConfigureGitUserInfo
    \/ IsUnderGitControl
    \/ InitializeGitRepository
    \/ CountFiles
    \/ AddAllFiles
    \/ Commit
    \/ Interrupt
    \/ StartRun

Spec == Init /\ [][Next]_vars

(* --------------------- countFiles called on its own --------------------- *)
\* the trees run hands to countFiles: the user's entries and the control
\* directory the initializer has just made
InitCount ==
    /\ opts \in [MaxFiles : Thresholds]
    /\ gitconfig = [section |-> "user", name |-> "", email |-> ""]
    /\ userTree \in Trees
    /\ \E pos \in 0..Len(userTree), k \in 1..MaxInitFiles :
          tree = AfterInit(userTree, pos, k)
    /\ repo = "repo"
    /\ commits = <<>>
    /\ staged = 0
    /\ pc = "countFiles"
    /\ authorInfo = ZeroAuthor
    /\ steps = <<>>
    /\ exitCode = -1
    /\ logged = 0
    /\ errMsg = NoMsg
    /\ fileCount = NoCount
    /\ runs = 1
    /\ atStart = [repo |-> "none", commits |-> <<>>, staged |-> 0,
                  tree |-> userTree, orphaned |-> FALSE]
    /\ orphaned = FALSE

ApplyCountFiles ==
    /\ pc = "countFiles"
    /\ fileCount' = countFiles(tree, opts.MaxFiles)
    /\ pc' = "counted"
    /\ UNCHANGED <<env, tree, repo, commits, staged, authorInfo, steps,
                   exitCode, logged, errMsg, runs, atStart, orphaned>>

NextCount == ApplyCountFiles

SpecCount == InitCount /\ [][NextCount]_vars

(* ------------------------------ properties ----------------------------- *)
LastStep == steps[Len(steps)]
CheckSaid(r) == \E i \in 1..Len(steps) : steps[i].step = "check" /\ steps[i].result = r
\* the run came to its end, by a return of Execute or by a panic
Ended == pc \in {"exited", "panicked"}
\* run returned nil: the commit was made, or the directory was found tracked
Succeeded == Len(steps) > 0 /\ \/ LastStep = [step |-> "commit", result |-> "ok"]
                               \/ LastStep = [step |-> "check", result |-> "ok"]
\* no library call of the run failed; the file-count gate is no such failure
NoFault == \A i \in 1..Len(steps) :
              steps[i].result \in {"ok", "notexists", "noworktree", "limit"}
Untouched ==
    /\ repo = atStart.repo
    /\ commits = atStart.commits
    /\ staged = atStart.staged
    /\ tree = atStart.tree
NoRepoWork == ~Did(steps, "init") /\ ~Did(steps, "add") /\ ~Did(steps, "commit")

\* C1 as stated: a run that starts on a tracked directory initializes, stages
\* and commits nothing, leaves repository and directory as they were, and
\* exits with code 0 (flags and logging being set up).
C1_AsStated ==
    atStart.repo = "repo" =>
        /\ NoRepoWork
        /\ Untouched
        /\ ((pc = "exited" /\ DidOk(steps, "setupLogger")) => exitCode = 0)

\* C1 amended: a run that starts on a tracked directory initializes, stages
\* and commits nothing and leaves repository and directory as they were; it
\* exits 0 exactly when it gets to the repository check and the open
\* succeeds, and exits 1 when an earlier step or the open fails (status 2
\* when the path expansion panics).
C1_TrackedRunIsNoOp ==
    atStart.repo = "repo" =>
        /\ NoRepoWork
        /\ Untouched
        /\ (Ended => (exitCode = 0 <=> CheckSaid("ok")))
        /\ (pc = "exited" => exitCode \in {0, 1})
        /\ (pc = "panicked" => (exitCode = 2 /\ LastStep.step = "config"))
        /\ (CheckSaid("ok") => pc = "exited" /\ exitCode = 0)

\* the second of two runs: the first made the commit, the second is a no-op
C1_Witness ==
    /\ runs = 2
    /\ atStart.repo = "repo"
    /\ Len(atStart.commits) = 1
    /\ atStart.commits[1].Message = CommitMessage
    /\ pc = "exited"
    /\ exitCode = 0

\* C2: a run on a directory without repository whose file count is at most
\* max-files ends with a repository of exactly one commit, whose author is
\* the resolved identity (no library call failing).
C2_OneCommitWithinLimit ==
    (/\ pc = "exited"
     /\ atStart.repo = "none"
     /\ NumFiles(userTree) <= opts.MaxFiles
     /\ NoFault)
    => /\ repo = "repo"
       /\ Len(commits) = 1
       /\ commits[1] = Signature(configureGitUserInfo(gitconfig))

C4_AsStated ==
    errMsg.kind = "limit" =>
        /\ errMsg.count = NumFiles(tree)
        /\ errMsg.limit = opts.MaxFiles

\* the non-directory entries among the first k entries the walk visits
FilesVisited(t, k) == NumFiles(SubSeq(WalkSeq(t), 1, k))

\* C4 amended: the count reported with the limit error is the counter at the
\* entry where the walk was aborted, max-files + 1 (1 for a negative
\* max-files); it is at most the number of non-directory entries of the
\* tree; the limit reported is max-files.
C4_ReportsCountAtAbort ==
    errMsg.kind = "limit" =>
        /\ errMsg.limit = opts.MaxFiles
        /\ errMsg.count = (IF opts.MaxFiles >= 0 THEN opts.MaxFiles + 1 ELSE 1)
        /\ errMsg.count = FilesVisited(tree, fileCount.visited)
        /\ errMsg.count <= NumFiles(tree)

\* the report is below the number of files the tree holds
C4_Witness ==
    /\ errMsg.kind = "limit"
    /\ opts.MaxFiles >= 1
    /\ errMsg.count = opts.MaxFiles + 1
    /\ NumFiles(tree) > errMsg.count
    /\ pc = "exited"

\* C5: name and email are resolved one by one: the file's user.name if not
\* empty, else "Your Name"; the file's user.email if not empty, else
\* "your.email@example.com"; the commit carries this identity.
C5_IdentityPerField ==
    LET hasName == gitconfig.section = "user" /\ gitconfig.name # ""
        hasEmail == gitconfig.section = "user" /\ gitconfig.email # ""
        want == [Name |-> IF hasName THEN gitconfig.name ELSE "Your Name",
                 Email |-> IF hasEmail THEN gitconfig.email
                           ELSE "your.email@example.com"]
    IN /\ DidOk(steps, "config") => authorInfo = want
       /\ DidOk(steps, "commit") =>
             /\ commits[Len(commits)].Name = want.Name
             /\ commits[Len(commits)].Email = want.Email

\* a file with the name only: the name is taken, the email is the default
C5_Witness ==
    /\ DidOk(steps, "commit")
    /\ gitconfig = [section |-> "user", name |-> "Alice", email |-> ""]
    /\ commits = <<[Name |-> "Alice", Email |-> "your.email@example.com",
                    Message |-> "Boilerplate"]>>

\* C6: the exit code is 0 exactly when run succeeded or found the directory
\* tracked, and 1 for every failure; every failure comes back to Execute and
\* is reported once.
C6_ExitCodes ==
    Ended =>
        /\ (exitCode = 0 <=> Succeeded)
        /\ (~Succeeded => exitCode = 1 /\ pc = "exited" /\ logged = 1)

\* the entries that precede the first failing entry of a walk
RECURSIVE UntilErr(_)
UntilErr(s) ==
    IF s = <<>> \/ s[1] = "err" THEN <<>> ELSE <<s[1]>> \o UntilErr(Tail(s))

\* the index, in the walk, of the k-th non-directory entry
RECURSIVE IndexOfFile(_, _, _)
IndexOfFile(s, k, i) ==
    IF i > Len(s) THEN 0
    ELSE IF IsFile(s[i])
         THEN IF k = 1 THEN i ELSE IndexOfFile(s, k - 1, i + 1)
         ELSE IndexOfFile(s, k, i + 1)

RunOrder == <<"parseFlags", "setLogLevel", "setupLogger", "config", "check",
              "init", "count", "add", "commit">>
PcOrder == <<"parseFlags", "setLogLevel", "setupLogger", "configure", "check",
             "init", "count", "add", "commit">>
\* the step let the run go on to the next one
WentOn(s) ==
    \/ s.result = "ok" /\ s.step # "check"
    \/ s.step = "check" /\ s.result \in {"notexists", "noworktree"}

\* C8: the steps of a run come in the order config load, check, initialize,
\* count, stage, commit, each at most once and after the success of all
\* earlier ones; initialization is attempted only after a check that said
\* "not under control" without error; a failed step is the last one; a check
\* that finds the directory tracked ends the run with success.
C8_StepOrder ==
    /\ Len(steps) <= Len(RunOrder)
    /\ \A i \in 1..Len(steps) : steps[i].step = RunOrder[i]
    /\ \A i \in 1..(Len(steps) - 1) : WentOn(steps[i])
    /\ Did(steps, "init") => (CheckSaid("notexists") \/ CheckSaid("noworktree"))
    /\ CheckSaid("other") =>
          (LastStep.step = "check" /\ pc = "exited" /\ exitCode = 1)
    /\ (Len(steps) > 0 /\ ~WentOn(LastStep)) => pc \in {"exited", "panicked"}
    /\ (Len(steps) > 0 /\ ~WentOn(LastStep) /\ ~Succeeded) => exitCode \in {1, 2}
    /\ CheckSaid("ok") =>
          (LastStep.step = "check" /\ pc = "exited" /\ exitCode = 0)
    /\ pc \in LivePcs => pc = PcOrder[Len(steps) + 1]

\* a run that went through every step
C8_Witness ==
    /\ Len(steps) = Len(RunOrder)
    /\ pc = "exited"
    /\ exitCode = 0
    /\ atStart.repo = "none"
    /\ Len(commits) = 1

\* C9 as stated: after a run that stopped between initialization and commit,
\* every later run finds the directory tracked, stages and commits nothing
\* and exits 0 (flags and logging being set up); the repository keeps zero
\* commits.
C9_AsStated ==
    atStart.orphaned =>
        /\ commits = <<>>
        /\ ~Did(steps, "add") /\ ~Did(steps, "commit")
        /\ (Did(steps, "check") => CheckSaid("ok"))
        /\ ((pc = "exited" /\ DidOk(steps, "setupLogger")) => exitCode = 0)

\* C9 amended: after a run that stopped between initialization and commit,
\* every later run initializes, stages and commits nothing and the repository
\* keeps zero commits; a later run whose open succeeds finds the directory
\* tracked and exits 0, and a later run exits 0 only so: one that fails
\* before the check, or whose open fails, exits 1 (status 2 when the path
\* expansion panics).
C9_OrphanStaysEmpty ==
    atStart.orphaned =>
        /\ repo = "repo"
        /\ commits = <<>>
        /\ NoRepoWork
        /\ (Did(steps, "check") => (CheckSaid("ok") \/ CheckSaid("other")))
        /\ (CheckSaid("ok") => pc = "exited" /\ exitCode = 0)
        /\ (Ended => (exitCode = 0 <=> CheckSaid("ok")))
        /\ (pc = "exited" /\ exitCode # 0 => exitCode = 1)
        /\ (pc = "panicked" => (exitCode = 2 /\ LastStep.step = "config"))

\* the third run after one that was left between initialization and commit
C9_Witness ==
    /\ atStart.orphaned
    /\ runs = 3
    /\ pc = "exited"
    /\ exitCode = 0
    /\ CheckSaid("ok")
    /\ commits = <<>>

\* C10: the count is taken after the initialization and over the control
\* directory too: it is the user's files plus the initializer's files, and a
\* directory is committed only if that sum is at most max-files.
C10_CountIncludesControlDir ==
    LET user == NumFiles(userTree)
        made == NumKind(tree, "gitfile")
    IN /\ Did(steps, "count") => (DidOk(steps, "init") /\ made >= 1)
       /\ DidOk(steps, "count") =>
             (fileCount.count = user + made /\ user + made <= opts.MaxFiles)
       /\ (Did(steps, "count") /\ ~HasErr(tree) /\ user + made <= opts.MaxFiles)
             => DidOk(steps, "count")
       /\ (DidOk(steps, "commit") /\ atStart.repo = "none") =>
             user + made <= opts.MaxFiles

\* committed at the limit: the user's files alone are below max-files
C10_Witness ==
    /\ DidOk(steps, "commit")
    /\ NumFiles(userTree) >= 1
    /\ NumFiles(userTree) < opts.MaxFiles
    /\ NumFiles(userTree) + NumKind(tree, "gitfile") = opts.MaxFiles
====
